---- MODULE Spec2Model ----
(***************************************************************************)
(* Model of app.py, the photo gallery backend: the register, login,        *)
(* logout, status, upload, list and delete request handlers, the           *)
(* login_required guard, the two MongoDB collections, the Cloudinary blob  *)
(* store and the server-side sessions.  Each request runs in a slot of     *)
(* req; a handler is cut into one step per external call (record store or  *)
(* blob store), so that the steps of concurrent requests interleave.       *)
(***************************************************************************)
EXTENDS Naturals, Sequences, FiniteSets

\* ---------------------------------------------------------------- bounds
NumReqs == 2        \* request slots served concurrently
NumSessions == 2    \* browser sessions (cookies)
MaxUsers == 2       \* user records the store may hold
MaxPhotos == 2      \* blob uploads over the lifetime of the store
MaxClock == 1       \* last instant utcnow() may return

Reqs == 1..NumReqs
Sessions == 1..NumSessions
Usernames == {"alice", "bob"}
Passwords == {"pw1", "pw2"}
RegPasswords == {"pw1"}
Filenames == {"a.jpg"}

VARIABLES
    db,                 \* "None" when the connection failed at startup
    users_collection,   \* sequence of user records, in insertion order
    photos_collection,  \* sequence of photo records, in insertion order
    cloudinary,         \* blobs stored: set of [public_id, folder]
    session,            \* session[s]: the dict stored for session s
    req,                \* req[r]: the request served in slot r
    next_photo_oid,     \* photo ObjectIds handed out so far
    next_public_id,     \* Cloudinary public ids handed out so far
    clock               \* the last instant utcnow() returned

vars == <<db, users_collection, photos_collection, cloudinary, session, req,
          next_photo_oid, next_public_id, clock>>

\* ------------------------------------------------------ values, helpers
\* str(ObjectId) and ObjectId(str): an ObjectId n prints as the one-element
\* string <<n>>; any other string is no ObjectId and ObjectId() raises on it.
Str(oid) == <<oid>>
BadId == <<0, 0>>
IsObjectIdStr(s) == Len(s) = 1
ObjectId(s) == s[1]

\* Python dicts: key test, pop(key, None), item assignment.
Has(d, k) == k \in DOMAIN d
Pop(d, k) == [x \in DOMAIN d \ {k} |-> d[x]]
Put(d, k, v) == [x \in DOMAIN d \cup {k} |-> IF x = k THEN v ELSE d[x]]
EmptyDict == <<>>

check_password_hash_any(hash, password) == hash # <<>>

\* bcrypt: a one-way hash; the check recomputes it.
generate_password_hash(password) == <<"bcrypt", password>>
check_password_hash(hash, password) == hash = generate_password_hash(password)

MsgUnauthorized == "Unauthorized. Please log in."
MsgDatabaseError == "Database Error"
MsgRequired == "Username and password are required."
MsgExists == "Username already exists."
MsgRegistered == "Registration successful! Login now."
MsgLoginOk == "Login successful."
MsgInvalid == "Invalid username or password."
MsgLogoutOk == "Logout successful."
MsgNoPhoto == "No photo file provided."
MsgNoSelected == "No selected file."
MsgUploadFailed == "Cloud Upload Failed"
MsgUploaded == "Photo uploaded successfully."
MsgNotFound == "Photo not found or unauthorized to delete."
MsgDeleted == "Photo deleted successfully."
MsgDeletionFailed == "Deletion failed"
MsgUncaught == "uncaught exception"

PhotoIds == {Str(i) : i \in 1..MaxPhotos} \cup {BadId}

NoFile == [present |-> FALSE, filename |-> ""]
Files == {NoFile} \cup {[present |-> TRUE, filename |-> f] : f \in Filenames \cup {""}}

\* An empty slot, and the fields of a request: its arguments, the locals of
\* its handler, and its response (status 0: none yet).
Idle ==
    [pc |-> "idle", op |-> "none", sid |-> 0, user_id |-> <<>>,
     username |-> "", password |-> "", file |-> NoFile, photo_id |-> <<>>,
     public_id |-> 0, uploaded_at |-> 0,
     status |-> 0, json |-> FALSE, message |-> "", photos |-> <<>>,
     isLoggedIn |-> FALSE]

\* jsonify(...), status: a structured JSON response ends the request.
Respond(q, status, message) ==
    [q EXCEPT !.pc = "done", !.status = status, !.json = TRUE, !.message = message]

\* An exception that leaves the handler: Flask answers 500 with no JSON body.
Raise(q) ==
    [q EXCEPT !.pc = "done", !.status = 500, !.json = FALSE, !.message = MsgUncaught]

\* users_collection.find_one({"username": username}): the index of the first
\* match in insertion order, 0 when there is none.
find_one_user(username) ==
    LET hits == {i \in 1..Len(users_collection) : users_collection[i].username = username}
    IN  IF hits = {} THEN 0 ELSE CHOOSE i \in hits : \A j \in hits : i <= j

login_required_open(s) == s \in Sessions

\* The guard of login_required: the session of the request holds user_id.
login_required(s) == Has(session[s], "user_id")

\* session['user_id'] as the request sees it (<<>>: no such key).
session_user_id(s) == IF Has(session[s], "user_id") THEN session[s]["user_id"] ELSE <<>>

Init ==
    /\ db \in {"None", "connected"}
    /\ users_collection = <<>>
    /\ photos_collection = <<>>
    /\ cloudinary = {}
    /\ session = [s \in Sessions |-> EmptyDict]
    /\ req = [r \in Reqs |-> Idle]
    /\ next_photo_oid = 0
    /\ next_public_id = 0
    /\ clock = 0

\* Slot r takes the next request: it is free and so is no slot after it (the
\* slots are interchangeable).
Free(r) == req[r].pc = "idle" /\ \A k \in Reqs : k < r => req[k].pc # "idle"

\* ------------------------------------------------------------- register
\* POST /api/register arrives: the startup check and the field validation.
register(r, username, password) ==
    /\ Free(r)
    /\ LET q == [Idle EXCEPT !.op = "register",
                             !.username = username, !.password = password]
       IN  req' = [req EXCEPT ![r] =
                IF db = "None" THEN Respond(q, 500, MsgDatabaseError)
                ELSE IF username = "" \/ password = "" THEN Respond(q, 400, MsgRequired)
                ELSE [q EXCEPT !.pc = "reg_find"]]
    /\ UNCHANGED <<db, users_collection, photos_collection, cloudinary, session,
                   next_photo_oid, next_public_id, clock>>

\* users_collection.find_one(...) of register answers.
register_find(r) ==
    /\ req[r].pc = "reg_find"
    /\ req' = [req EXCEPT ![r] =
            IF find_one_user(req[r].username) # 0 THEN Respond(req[r], 409, MsgExists)
            ELSE [req[r] EXCEPT !.pc = "reg_insert"]]
    /\ UNCHANGED <<db, users_collection, photos_collection, cloudinary, session,
                   next_photo_oid, next_public_id, clock>>

\* users_collection.insert_one(...) of register answers.
register_insert(r) ==
    /\ req[r].pc = "reg_insert"
    /\ Len(users_collection) < MaxUsers
    /\ users_collection' = Append(users_collection,
            [_id |-> Len(users_collection) + 1,
             username |-> req[r].username,
             password |-> generate_password_hash(req[r].password)])
    /\ req' = [req EXCEPT ![r] = Respond(req[r], 200, MsgRegistered)]
    /\ UNCHANGED <<db, photos_collection, cloudinary, session,
                   next_photo_oid, next_public_id, clock>>

\* A record-store call of register raises: nothing in the handler catches it.
register_db_error(r) ==
    /\ req[r].pc \in {"reg_find", "reg_insert"}
    /\ req' = [req EXCEPT ![r] = Raise(req[r])]
    /\ UNCHANGED <<db, users_collection, photos_collection, cloudinary, session,
                   next_photo_oid, next_public_id, clock>>

\* ---------------------------------------------------------------- login
\* POST /api/login arrives: the startup check.
login(r, s, username, password) ==
    /\ Free(r)
    /\ LET q == [Idle EXCEPT !.op = "login", !.sid = s,
                             !.username = username, !.password = password]
       IN  req' = [req EXCEPT ![r] =
                IF db = "None" THEN Respond(q, 500, MsgDatabaseError)
                ELSE [q EXCEPT !.pc = "login_find"]]
    /\ UNCHANGED <<db, users_collection, photos_collection, cloudinary, session,
                   next_photo_oid, next_public_id, clock>>

\* find_one of login answers; the hash check; on success the session is set.
login_find(r) ==
    /\ req[r].pc = "login_find"
    /\ LET i == find_one_user(req[r].username)
           s == req[r].sid
       IN  IF i # 0 /\ check_password_hash(users_collection[i].password, req[r].password)
           THEN /\ session' = [session EXCEPT ![s] =
                        Put(Put(session[s], "user_id", Str(users_collection[i]._id)),
                            "username", users_collection[i].username)]
                /\ req' = [req EXCEPT ![r] = Respond(req[r], 200, MsgLoginOk)]
           ELSE /\ session' = session
                /\ req' = [req EXCEPT ![r] = Respond(req[r], 401, MsgInvalid)]
    /\ UNCHANGED <<db, users_collection, photos_collection, cloudinary,
                   next_photo_oid, next_public_id, clock>>

\* find_one of login raises: nothing in the handler catches it.
login_db_error(r) ==
    /\ req[r].pc = "login_find"
    /\ req' = [req EXCEPT ![r] = Raise(req[r])]
    /\ UNCHANGED <<db, users_collection, photos_collection, cloudinary, session,
                   next_photo_oid, next_public_id, clock>>

\* ------------------------------------------------------- logout, status
logout_keeps_user_id(r, s) ==
    /\ Free(r)
    /\ LET q == [Idle EXCEPT !.op = "logout", !.sid = s]
       IN  IF ~login_required(s)
           THEN /\ req' = [req EXCEPT ![r] = Respond(q, 401, MsgUnauthorized)]
                /\ session' = session
           ELSE /\ session' = [session EXCEPT ![s] = Pop(session[s], "username")]
                /\ req' = [req EXCEPT ![r] = Respond(q, 200, MsgLogoutOk)]
    /\ UNCHANGED <<db, users_collection, photos_collection, cloudinary,
                   next_photo_oid, next_public_id, clock>>

\* POST /api/logout: the guard, then both keys are popped.
logout(r, s) ==
    /\ Free(r)
    /\ LET q == [Idle EXCEPT !.op = "logout", !.sid = s]
       IN  IF ~login_required(s)
           THEN /\ req' = [req EXCEPT ![r] = Respond(q, 401, MsgUnauthorized)]
                /\ session' = session
           ELSE /\ session' = [session EXCEPT ![s] = Pop(Pop(session[s], "user_id"), "username")]
                /\ req' = [req EXCEPT ![r] = Respond(q, 200, MsgLogoutOk)]
    /\ UNCHANGED <<db, users_collection, photos_collection, cloudinary,
                   next_photo_oid, next_public_id, clock>>

\* GET /api/status: reads session['username'] when user_id is in the session;
\* a session holding user_id without username makes that read raise KeyError.
get_status(r, s) ==
    /\ Free(r)
    /\ LET q == [Idle EXCEPT !.op = "status", !.sid = s]
       IN  req' = [req EXCEPT ![r] =
                IF Has(session[s], "user_id")
                THEN IF Has(session[s], "username")
                     THEN [Respond(q, 200, "") EXCEPT !.isLoggedIn = TRUE,
                                                      !.username = session[s]["username"]]
                     ELSE Raise(q)
                ELSE Respond(q, 200, "")]
    /\ UNCHANGED <<db, users_collection, photos_collection, cloudinary, session,
                   next_photo_oid, next_public_id, clock>>

\* ----------------------------------------------------------- upload_photo
\* Cloudinary folder of a user: f"cloudgallery_user_{user_id}".
folder_name(user_id) == <<"cloudgallery_user", user_id>>

\* POST /api/photos arrives with the session of cookie s: the guard, the
\* startup check, the file checks, and user_id is read from the session (a
\* KeyError, which nothing catches, were the key missing).  The handler never
\* writes the session, so the request keeps what it read and not the cookie.
upload_photo(r, s, file) ==
    /\ Free(r)
    /\ LET q == [Idle EXCEPT !.op = "upload", !.user_id = session_user_id(s), !.file = file]
       IN  req' = [req EXCEPT ![r] =
                IF ~login_required(s) THEN Respond(q, 401, MsgUnauthorized)
                ELSE IF db = "None" THEN Respond(q, 500, MsgDatabaseError)
                ELSE IF ~file.present THEN Respond(q, 400, MsgNoPhoto)
                ELSE IF q.user_id = <<>> THEN Raise(q)
                ELSE IF file.filename = "" THEN Respond(q, 400, MsgNoSelected)
                ELSE [q EXCEPT !.pc = "upload_blob"]]
    /\ UNCHANGED <<db, users_collection, photos_collection, cloudinary, session,
                   next_photo_oid, next_public_id, clock>>

\* cloudinary.uploader.upload(...) stores the blob and returns its public id;
\* new_photo is then built, which reads datetime.utcnow() (time does not run
\* backwards).
upload_blob(r) ==
    /\ req[r].pc = "upload_blob"
    /\ next_public_id < MaxPhotos
    /\ next_public_id' = next_public_id + 1
    /\ cloudinary' = cloudinary \cup
            {[public_id |-> next_public_id + 1, folder |-> folder_name(req[r].user_id)]}
    /\ \E t \in clock..MaxClock :
            /\ clock' = t
            /\ req' = [req EXCEPT ![r] = [req[r] EXCEPT !.pc = "upload_insert",
                                                        !.public_id = next_public_id + 1,
                                                        !.uploaded_at = t]]
    /\ UNCHANGED <<db, users_collection, photos_collection, session, next_photo_oid>>

upload_blob_error_falls_through(r) ==
    /\ req[r].pc = "upload_blob"
    /\ req' = [req EXCEPT ![r] = [req[r] EXCEPT !.pc = "upload_insert"]]
    /\ UNCHANGED <<db, users_collection, photos_collection, cloudinary, session,
                   next_photo_oid, next_public_id, clock>>

\* cloudinary.uploader.upload(...) raises: caught, 500, the handler returns.
upload_blob_error(r) ==
    /\ req[r].pc = "upload_blob"
    /\ req' = [req EXCEPT ![r] = Respond(req[r], 500, MsgUploadFailed)]
    /\ UNCHANGED <<db, users_collection, photos_collection, cloudinary, session,
                   next_photo_oid, next_public_id, clock>>

\* datetime.now().strftime("%Y-%m-%d").
Today == "today"

\* The record new_photo of an upload request.
new_photo(q, oid) ==
    [_id |-> oid, user_id |-> ObjectId(q.user_id), src |-> <<"secure_url", q.public_id>>,
     public_id |-> q.public_id, title |-> q.file.filename, date |-> Today,
     uploaded_at |-> q.uploaded_at]

\* What the frontend gets of a record: _id as a string, and neither user_id,
\* uploaded_at nor public_id.
View(photo) ==
    [_id |-> Str(photo._id), src |-> photo.src, title |-> photo.title,
     date |-> photo.date]

\* photos_collection.insert_one(new_photo) answers; the view is returned.
upload_insert(r) ==
    /\ req[r].pc = "upload_insert"
    /\ LET photo == new_photo(req[r], next_photo_oid + 1)
       IN  /\ photos_collection' = Append(photos_collection, photo)
           /\ req' = [req EXCEPT ![r] =
                    [Respond(req[r], 200, MsgUploaded) EXCEPT !.photos = <<View(photo)>>]]
    /\ next_photo_oid' = next_photo_oid + 1
    /\ UNCHANGED <<db, users_collection, cloudinary, session, next_public_id, clock>>

\* insert_one of upload raises: it is outside the try block, nothing catches it.
upload_db_error(r) ==
    /\ req[r].pc = "upload_insert"
    /\ req' = [req EXCEPT ![r] = Raise(req[r])]
    /\ UNCHANGED <<db, users_collection, photos_collection, cloudinary, session,
                   next_photo_oid, next_public_id, clock>>

\* ------------------------------------------------------------- get_photos
find_photos_unfiltered(user_id) == photos_collection

\* find({"user_id": ...}): the records of one owner, in insertion order.
find_photos(user_id) ==
    SelectSeq(photos_collection, LAMBDA p : p.user_id = user_id)

\* .sort("uploaded_at", -1): insertion sort, newest first.
RECURSIVE insert_desc(_, _)
insert_desc(sorted, p) ==
    IF sorted = <<>> THEN <<p>>
    ELSE IF p.uploaded_at > Head(sorted).uploaded_at THEN <<p>> \o sorted
    ELSE <<Head(sorted)>> \o insert_desc(Tail(sorted), p)

sort_natural_order(photos) == photos

RECURSIVE sort_uploaded_at_desc(_)
sort_uploaded_at_desc(photos) ==
    IF photos = <<>> THEN <<>>
    ELSE insert_desc(sort_uploaded_at_desc(SubSeq(photos, 1, Len(photos) - 1)),
                     photos[Len(photos)])

\* GET /api/photos arrives: the guard, the startup check, user_id is read.
get_photos(r, s) ==
    /\ Free(r)
    /\ LET q == [Idle EXCEPT !.op = "list", !.user_id = session_user_id(s)]
       IN  req' = [req EXCEPT ![r] =
                IF ~login_required(s) THEN Respond(q, 401, MsgUnauthorized)
                ELSE IF db = "None" THEN Respond(q, 500, MsgDatabaseError)
                ELSE IF q.user_id = <<>> THEN Raise(q)
                ELSE [q EXCEPT !.pc = "list_find"]]
    /\ UNCHANGED <<db, users_collection, photos_collection, cloudinary, session,
                   next_photo_oid, next_public_id, clock>>

\* The query answers: the sorted records of the owner, each turned into a view.
get_photos_find(r) ==
    /\ req[r].pc = "list_find"
    /\ LET found == sort_uploaded_at_desc(find_photos(ObjectId(req[r].user_id)))
       IN  req' = [req EXCEPT ![r] =
                [Respond(req[r], 200, "") EXCEPT
                    !.photos = [i \in 1..Len(found) |-> View(found[i])]]]
    /\ UNCHANGED <<db, users_collection, photos_collection, cloudinary, session,
                   next_photo_oid, next_public_id, clock>>

\* The query raises: nothing in the handler catches it.
get_photos_db_error(r) ==
    /\ req[r].pc = "list_find"
    /\ req' = [req EXCEPT ![r] = Raise(req[r])]
    /\ UNCHANGED <<db, users_collection, photos_collection, cloudinary, session,
                   next_photo_oid, next_public_id, clock>>

\* ----------------------------------------------------------- delete_photo
find_one_photo_by_id(oid, user_id) ==
    LET hits == {i \in 1..Len(photos_collection) : photos_collection[i]._id = oid}
    IN  IF hits = {} THEN 0 ELSE CHOOSE i \in hits : \A j \in hits : i <= j

\* photos_collection.find_one({"_id": ..., "user_id": ...}): the index of the
\* record with that id and that owner, 0 when there is none.
find_one_photo(oid, user_id) ==
    LET hits == {i \in 1..Len(photos_collection) :
                    /\ photos_collection[i]._id = oid
                    /\ photos_collection[i].user_id = user_id}
    IN  IF hits = {} THEN 0 ELSE CHOOSE i \in hits : \A j \in hits : i <= j

\* photos_collection.delete_one({"_id": oid}): the collection without the
\* first record with that id.
delete_one(oid) ==
    LET hits == {i \in 1..Len(photos_collection) : photos_collection[i]._id = oid}
    IN  IF hits = {} THEN photos_collection
        ELSE LET i == CHOOSE k \in hits : \A j \in hits : k <= j
             IN  SubSeq(photos_collection, 1, i - 1) \o
                 SubSeq(photos_collection, i + 1, Len(photos_collection))

\* cloudinary.uploader.destroy(public_id): the store without that blob
\* (destroying an absent blob is no error).
destroy(public_id) == {b \in cloudinary : b.public_id # public_id}

\* DELETE /api/photos/<photo_id> arrives: the guard, the startup check,
\* user_id is read.
delete_photo(r, s, photo_id) ==
    /\ Free(r)
    /\ LET q == [Idle EXCEPT !.op = "delete", !.user_id = session_user_id(s),
                             !.photo_id = photo_id]
       IN  req' = [req EXCEPT ![r] =
                IF ~login_required(s) THEN Respond(q, 401, MsgUnauthorized)
                ELSE IF db = "None" THEN Respond(q, 500, MsgDatabaseError)
                ELSE IF q.user_id = <<>> THEN Raise(q)
                ELSE [q EXCEPT !.pc = "del_find"]]
    /\ UNCHANGED <<db, users_collection, photos_collection, cloudinary, session,
                   next_photo_oid, next_public_id, clock>>

\* ObjectId(photo_id) and the lookup by id and owner: 404 when nothing
\* matches; an invalid id raises inside the try block, 500.
delete_find(r) ==
    /\ req[r].pc = "del_find"
    /\ req' = [req EXCEPT ![r] =
            IF ~IsObjectIdStr(req[r].photo_id) THEN Respond(req[r], 500, MsgDeletionFailed)
            ELSE LET i == find_one_photo(ObjectId(req[r].photo_id), ObjectId(req[r].user_id))
                 IN  IF i = 0 THEN Respond(req[r], 404, MsgNotFound)
                     ELSE [req[r] EXCEPT !.pc = "del_destroy",
                                         !.public_id = photos_collection[i].public_id]]
    /\ UNCHANGED <<db, users_collection, photos_collection, cloudinary, session,
                   next_photo_oid, next_public_id, clock>>

\* cloudinary.uploader.destroy(public_id) answers.
delete_destroy(r) ==
    /\ req[r].pc = "del_destroy"
    /\ cloudinary' = destroy(req[r].public_id)
    /\ req' = [req EXCEPT ![r] = [req[r] EXCEPT !.pc = "del_record"]]
    /\ UNCHANGED <<db, users_collection, photos_collection, session,
                   next_photo_oid, next_public_id, clock>>

\* photos_collection.delete_one({"_id": ...}) answers.
delete_record(r) ==
    /\ req[r].pc = "del_record"
    /\ photos_collection' = delete_one(ObjectId(req[r].photo_id))
    /\ req' = [req EXCEPT ![r] = Respond(req[r], 200, MsgDeleted)]
    /\ UNCHANGED <<db, users_collection, cloudinary, session,
                   next_photo_oid, next_public_id, clock>>

delete_error_drops_record(r) ==
    /\ req[r].pc \in {"del_find", "del_destroy", "del_record"}
    /\ photos_collection' =
            IF req[r].pc = "del_destroy" THEN delete_one(ObjectId(req[r].photo_id))
            ELSE photos_collection
    /\ req' = [req EXCEPT ![r] = Respond(req[r], 500, MsgDeletionFailed)]
    /\ UNCHANGED <<db, users_collection, cloudinary, session,
                   next_photo_oid, next_public_id, clock>>

\* A call inside the try block of delete raises (find_one, destroy or
\* delete_one): caught, 500, nothing further is done.
delete_error(r) ==
    /\ req[r].pc \in {"del_find", "del_destroy", "del_record"}
    /\ req' = [req EXCEPT ![r] = Respond(req[r], 500, MsgDeletionFailed)]
    /\ UNCHANGED <<db, users_collection, photos_collection, cloudinary, session,
                   next_photo_oid, next_public_id, clock>>

\* The response has been sent: the slot is free again.
finish(r) ==
    /\ req[r].pc = "done"
    /\ req' = [req EXCEPT ![r] = Idle]
    /\ UNCHANGED <<db, users_collection, photos_collection, cloudinary, session,
                   next_photo_oid, next_public_id, clock>>

Next ==
    \/ \E r \in Reqs, u \in Usernames \cup {""}, p \in RegPasswords \cup {""} :
            register(r, u, p)
    \/ \E r \in Reqs : register_find(r)
    \/ \E r \in Reqs : register_insert(r)
    \/ \E r \in Reqs : register_db_error(r)
    \/ \E r \in Reqs, s \in Sessions, u \in Usernames, p \in Passwords : login(r, s, u, p)
    \/ \E r \in Reqs : login_find(r)
    \/ \E r \in Reqs : login_db_error(r)
    \/ \E r \in Reqs, s \in Sessions : logout(r, s)
    \/ \E r \in Reqs, s \in Sessions : get_status(r, s)
    \/ \E r \in Reqs, s \in Sessions, f \in Files : upload_photo(r, s, f)
    \/ \E r \in Reqs : upload_blob(r)
    \/ \E r \in Reqs : upload_blob_error(r)
    \/ \E r \in Reqs : upload_insert(r)
    \/ \E r \in Reqs : upload_db_error(r)
    \/ \E r \in Reqs, s \in Sessions : get_photos(r, s)
    \/ \E r \in Reqs : get_photos_find(r)
    \/ \E r \in Reqs : get_photos_db_error(r)
    \/ \E r \in Reqs, s \in Sessions, p \in PhotoIds : delete_photo(r, s, p)
    \/ \E r \in Reqs : delete_find(r)
    \/ \E r \in Reqs : delete_destroy(r)
    \/ \E r \in Reqs : delete_record(r)
    \/ \E r \in Reqs : delete_error(r)
    \/ \E r \in Reqs : finish(r)

Spec == Init /\ [][Next]_vars

\* The authentication handlers alone, from the empty stores.
NextAuth ==
    \/ \E r \in Reqs, u \in Usernames \cup {""}, p \in RegPasswords \cup {""} :
            register(r, u, p)
    \/ \E r \in Reqs : register_find(r)
    \/ \E r \in Reqs : register_insert(r)
    \/ \E r \in Reqs : register_db_error(r)
    \/ \E r \in Reqs, s \in Sessions, u \in Usernames, p \in Passwords : login(r, s, u, p)
    \/ \E r \in Reqs : login_find(r)
    \/ \E r \in Reqs : login_db_error(r)
    \/ \E r \in Reqs, s \in Sessions : logout(r, s)
    \/ \E r \in Reqs, s \in Sessions : get_status(r, s)
    \/ \E r \in Reqs : finish(r)

SpecAuth == Init /\ [][NextAuth]_vars

\* The photo handlers, with login and logout, once the users are registered.
\* register reads and writes users_collection only, no photo handler reads
\* it, and login sees the first record of a name only.
InitPhotos ==
    /\ db \in {"None", "connected"}
    /\ users_collection =
            <<[_id |-> 1, username |-> "alice", password |-> generate_password_hash("pw1")],
              [_id |-> 2, username |-> "bob", password |-> generate_password_hash("pw1")]>>
    /\ photos_collection = <<>>
    /\ cloudinary = {}
    /\ session = [s \in Sessions |-> EmptyDict]
    /\ req = [r \in Reqs |-> Idle]
    /\ next_photo_oid = 0
    /\ next_public_id = 0
    /\ clock = 0

\* A response is sent as soon as it is made: sending it frees the slot and
\* touches nothing else, so no step of another request needs to come first.
Pending == \E k \in Reqs : req[k].pc = "done"
Serve(step) == ~Pending /\ step

NextPhotos ==
    \/ \E r \in Reqs, s \in Sessions, u \in Usernames : Serve(login(r, s, u, "pw1"))
    \/ \E r \in Reqs : Serve(login_find(r))
    \/ \E r \in Reqs : Serve(login_db_error(r))
    \/ \E r \in Reqs, s \in Sessions : Serve(logout(r, s))
    \/ \E r \in Reqs, s \in Sessions : Serve(get_status(r, s))
    \/ \E r \in Reqs, s \in Sessions, f \in Files : Serve(upload_photo(r, s, f))
    \/ \E r \in Reqs : Serve(upload_blob(r))
    \/ \E r \in Reqs : Serve(upload_blob_error(r))
    \/ \E r \in Reqs : Serve(upload_insert(r))
    \/ \E r \in Reqs : Serve(upload_db_error(r))
    \/ \E r \in Reqs, s \in Sessions : Serve(get_photos(r, s))
    \/ \E r \in Reqs : Serve(get_photos_find(r))
    \/ \E r \in Reqs : Serve(get_photos_db_error(r))
    \/ \E r \in Reqs, s \in Sessions, p \in PhotoIds : Serve(delete_photo(r, s, p))
    \/ \E r \in Reqs : Serve(delete_find(r))
    \/ \E r \in Reqs : Serve(delete_destroy(r))
    \/ \E r \in Reqs : Serve(delete_record(r))
    \/ \E r \in Reqs : Serve(delete_error(r))
    \/ \E r \in Reqs : finish(r)

SpecPhotos == InitPhotos /\ [][NextPhotos]_vars

\* ------------------------------------------------------------ properties
Protected == {"logout", "upload", "list", "delete"}
PhotoOps == {"upload", "list", "delete"}

\* The ids and the records of a collection value.
Records(photos) == {photos[i] : i \in 1..Len(photos)}
Ids(photos) == {photos[i]._id : i \in 1..Len(photos)}
ViewIds(views) == {views[i]._id : i \in 1..Len(views)}

\* Slot r takes a step from pc value from, to pc value to.
Moves(r, from, to) == req[r].pc = from /\ req'[r].pc = to

\* A record enters the collection only at the insert step of an upload, with
\* the user id of that request's session as owner, and never changes owner.
OwnerIsUploader ==
    /\ \A p \in Records(photos_collection') :
            p._id \notin Ids(photos_collection) =>
                \E r \in Reqs : /\ Moves(r, "upload_insert", "done")
                                /\ req[r].user_id = Str(p.user_id)
    /\ \A p \in Records(photos_collection), q \in Records(photos_collection') :
            p._id = q._id => p.user_id = q.user_id

\* C1: a list request answers with exactly the photo records whose owner is
\* the user id of the session it was made under, and a record's owner is the
\* user id of the session its upload was made under: no photo uploaded under
\* user A's session is ever listed under user B's.
C1_ListOnlyOwnPhotos ==
    [][/\ OwnerIsUploader
       /\ \A r \in Reqs :
            (Moves(r, "list_find", "done") /\ req'[r].json) =>
                /\ req'[r].status = 200
                /\ Len(req'[r].photos) = Cardinality(ViewIds(req'[r].photos))
                /\ ViewIds(req'[r].photos) =
                        {Str(p._id) : p \in {x \in Records(photos_collection) :
                                                Str(x.user_id) = req[r].user_id}}]_vars

\* B has listed while A and B own one photo each: the answer holds B's only.
C1_Witness ==
    \E r \in Reqs :
        /\ req[r].pc = "done" /\ req[r].op = "list" /\ req[r].status = 200
        /\ req[r].user_id = Str(2)
        /\ \E a, b \in Records(photos_collection) :
                /\ a.user_id = 1 /\ b.user_id = 2
                /\ req[r].photos = <<View(b)>>

\* C2: a delete under B's session against the id of a photo A owns is
\* answered 404 (500 when the lookup itself fails) and goes no further; a
\* record leaves the collection only at the last step of a delete made under
\* its owner's session, and a blob leaves the store only at the destroy step
\* of a delete made under the session of the user whose folder holds it.
C2_DeleteOnlyByOwner ==
    [][/\ \A r \in Reqs :
            (/\ req[r].pc = "del_find" /\ req'[r] # req[r]
             /\ IsObjectIdStr(req[r].photo_id)
             /\ \E p \in Records(photos_collection) :
                    /\ p._id = ObjectId(req[r].photo_id)
                    /\ Str(p.user_id) # req[r].user_id) =>
                /\ req'[r].pc = "done" /\ req'[r].json
                /\ \/ req'[r].status = 404 /\ req'[r].message = MsgNotFound
                   \/ req'[r].status = 500 /\ req'[r].message = MsgDeletionFailed
                /\ photos_collection' = photos_collection
                /\ cloudinary' = cloudinary
       /\ \A p \in Records(photos_collection) :
            p._id \notin Ids(photos_collection') =>
                \E r \in Reqs : /\ Moves(r, "del_record", "done")
                                /\ req[r].user_id = Str(p.user_id)
                                /\ req[r].photo_id = Str(p._id)
       /\ \A b \in cloudinary \ cloudinary' :
                \E r \in Reqs : /\ Moves(r, "del_destroy", "del_record")
                                /\ req[r].public_id = b.public_id
                                /\ folder_name(req[r].user_id) = b.folder]_vars

\* B's delete of a photo of A has been answered 404; record and blob remain.
C2_Witness ==
    \E r \in Reqs, p \in Records(photos_collection) :
        /\ req[r].pc = "done" /\ req[r].op = "delete" /\ req[r].status = 404
        /\ req[r].user_id = Str(2)
        /\ p.user_id = 1 /\ req[r].photo_id = Str(p._id)
        /\ \E b \in cloudinary : b.public_id = p.public_id

\* C3: a logout, upload, list or delete request whose session holds no user
\* id is answered 401 with the fixed message at once, before any step of the
\* handler, and the stores and the sessions stay as they are.
C3_GuardRejects ==
    [][\A r \in Reqs :
            (/\ req[r].pc = "idle" /\ req'[r].op \in Protected
             /\ IF req'[r].op = "logout"
                THEN ~Has(session[req'[r].sid], "user_id")
                ELSE req'[r].user_id = <<>>) =>
                /\ req'[r].pc = "done"
                /\ req'[r].status = 401 /\ req'[r].json
                /\ req'[r].message = MsgUnauthorized
                /\ UNCHANGED <<users_collection, photos_collection, cloudinary, session>>]_vars

\* An upload without a session has been answered 401, a photo being stored.
C3_Witness ==
    \E r \in Reqs :
        /\ photos_collection # <<>> /\ cloudinary # {}
        /\ req[r].pc = "done" /\ req[r].op = "upload" /\ req[r].user_id = <<>>
        /\ req[r].file.present /\ req[r].file.filename # ""
        /\ req[r].status = 401

\* C4: the user store never holds two user records with the same username,
\* whatever the interleaving of the steps of concurrent register requests.
C4_UsernamesUnique ==
    \A i, j \in 1..Len(users_collection) :
        i # j => users_collection[i].username # users_collection[j].username

\* Some user record has this username and the hash of this password.
CredentialsMatch(username, password) ==
    \E i \in 1..Len(users_collection) :
        /\ users_collection[i].username = username
        /\ users_collection[i].password = generate_password_hash(password)

\* What the client sees of a response.
Response(q) == <<q.status, q.json, q.message, q.isLoggedIn, q.photos>>

\* C5: a login whose username has no record and a login with a registered
\* username and a wrong password are both answered 401 with the same message,
\* and neither touches the session; a session comes to hold a user id only in
\* the step of a login whose username and password match a user record, and
\* then it holds that user's id and username.
C5_LoginFailuresAlike ==
    [][/\ \A r \in Reqs :
            (/\ Moves(r, "login_find", "done") /\ req'[r].json
             /\ ~CredentialsMatch(req[r].username, req[r].password)) =>
                /\ req'[r].status = 401 /\ req'[r].message = MsgInvalid
                /\ session' = session
       /\ \A s \in Sessions :
            (session'[s] # session[s] /\ Has(session'[s], "user_id")) =>
                \E r \in Reqs :
                    /\ Moves(r, "login_find", "done") /\ req[r].sid = s
                    /\ req'[r].status = 200
                    /\ CredentialsMatch(req[r].username, req[r].password)
                    /\ \E i \in 1..Len(users_collection) :
                            /\ users_collection[i].username = req[r].username
                            /\ session'[s] = [user_id |-> Str(users_collection[i]._id),
                                              username |-> req[r].username]
       /\ \A r1, r2 \in Reqs :
            (/\ req'[r1].op = "login" /\ req'[r1].status = 401
             /\ req'[r2].op = "login" /\ req'[r2].status = 401) =>
                Response(req'[r1]) = Response(req'[r2])]_vars

\* alice is registered and bob is not; a login as alice with a wrong password
\* and a login as bob have both been answered 401, and no session is set.
C5_Witness ==
    \E r1, r2 \in Reqs :
        /\ find_one_user("alice") # 0 /\ find_one_user("bob") = 0
        /\ ~CredentialsMatch("alice", "pw2")
        /\ req[r1].pc = "done" /\ req[r1].op = "login" /\ req[r1].status = 401
        /\ req[r1].username = "alice" /\ req[r1].password = "pw2"
        /\ req[r2].pc = "done" /\ req[r2].op = "login" /\ req[r2].status = 401
        /\ req[r2].username = "bob"
        /\ \A s \in Sessions : session[s] = EmptyDict

\* C6: when the blob upload of an upload request fails, the request is
\* answered 500 and no record is inserted; a request reaches the insert step
\* only through a blob upload of its own that stored a blob in its user's
\* folder, and the record inserted has that user as owner and that blob's
\* public id as deletion handle.
C6_RecordOnlyAfterBlob ==
    [][\A r \in Reqs :
        /\ (req[r].pc = "upload_blob" /\ req'[r].pc = "done") =>
                /\ req'[r].status = 500 /\ req'[r].json
                /\ req'[r].message = MsgUploadFailed
                /\ photos_collection' = photos_collection
        /\ req'[r].pc = "upload_insert" =>
                /\ req[r].pc \in {"upload_blob", "upload_insert"}
                /\ req[r].pc = "upload_blob" =>
                        /\ [public_id |-> req'[r].public_id,
                            folder |-> folder_name(req[r].user_id)]
                                \in cloudinary' \ cloudinary
                        /\ req'[r].user_id = req[r].user_id
                /\ req[r].pc = "upload_insert" => req'[r] = req[r]
        /\ \A p \in Records(photos_collection') :
                p._id \notin Ids(photos_collection) =>
                    \E k \in Reqs :
                        /\ Moves(k, "upload_insert", "done")
                        /\ Str(p.user_id) = req[k].user_id
                        /\ p.public_id = req[k].public_id]_vars

\* A blob upload has failed under a user who owns no record, a record of
\* another upload being stored.
C6_Witness ==
    \E r \in Reqs :
        /\ req[r].pc = "done" /\ req[r].op = "upload"
        /\ req[r].status = 500 /\ req[r].message = MsgUploadFailed
        /\ photos_collection # <<>>
        /\ \A p \in Records(photos_collection) : Str(p.user_id) # req[r].user_id

\* C7: a delete destroys the blob before it removes the record (at the step
\* that removes the record, the blob of the handle it read is gone); when the
\* destroy call fails, the request is answered 500 and neither the record
\* store nor the blob store changes.
C7_BlobBeforeRecord ==
    [][\A r \in Reqs :
        /\ (req[r].pc = "del_destroy" /\ req'[r].pc = "done") =>
                /\ req'[r].status = 500 /\ req'[r].json
                /\ req'[r].message = MsgDeletionFailed
                /\ photos_collection' = photos_collection
                /\ cloudinary' = cloudinary
        /\ req[r].pc = "del_record" =>
                \A b \in cloudinary : b.public_id # req[r].public_id
        /\ (req'[r].pc = "del_record" /\ req[r].pc # "del_record") =>
                req[r].pc = "del_destroy"
        /\ photos_collection' # photos_collection /\ Len(photos_collection') < Len(photos_collection)
                => \E k \in Reqs : Moves(k, "del_record", "done") /\ req'[k].status = 200]_vars

\* The owner's delete has been answered 500 after the lookup found the photo;
\* its record and its blob are still stored.
C7_Witness ==
    \E r \in Reqs, p \in Records(photos_collection) :
        /\ req[r].pc = "done" /\ req[r].op = "delete"
        /\ req[r].status = 500 /\ req[r].message = MsgDeletionFailed
        /\ req[r].photo_id = Str(p._id) /\ req[r].user_id = Str(p.user_id)
        /\ req[r].public_id = p.public_id
        /\ \E b \in cloudinary : b.public_id = p.public_id

\* The upload timestamp of the stored record a view stands for.
uploaded_at_of(view) ==
    (CHOOSE p \in Records(photos_collection) : Str(p._id) = view._id).uploaded_at

\* C8: in the answer of a list request, a photo never comes before one with
\* a later upload timestamp, in whatever order the records were inserted.
C8_ListNewestFirst ==
    [][\A r \in Reqs :
            (Moves(r, "list_find", "done") /\ req'[r].json) =>
                \A i, j \in 1..Len(req'[r].photos) :
                    i < j => uploaded_at_of(req'[r].photos[i])
                                >= uploaded_at_of(req'[r].photos[j])]_vars

\* Two uploads of one user ran concurrently: the record inserted first has
\* the later timestamp; the list shows it first.
C8_Witness ==
    \E r \in Reqs :
        /\ req[r].pc = "done" /\ req[r].op = "list" /\ req[r].status = 200
        /\ Len(photos_collection) = 2
        /\ photos_collection[1].uploaded_at > photos_collection[2].uploaded_at
        /\ photos_collection[1]._id < photos_collection[2]._id
        /\ photos_collection[1].public_id > photos_collection[2].public_id
        /\ req[r].photos = <<View(photos_collection[1]), View(photos_collection[2])>>

\* A session holding a user id holds the username too.
SessionWellFormed(sess) ==
    \A s \in Sessions : Has(sess[s], "user_id") => Has(sess[s], "username")

\* C9: a logout made with an active session empties the session and is
\* answered 200; a session holding no user id comes to hold one only in the
\* step of a login answered 200 on that session, and until then a status
\* request on it answers isLoggedIn false and every logout, upload, list and
\* delete request that arrives on it is answered 401; status never fails.
C9_LogoutThenRejected ==
    [][/\ \A r \in Reqs :
            (req[r].pc = "idle" /\ req'[r].op = "logout"
                /\ Has(session[req'[r].sid], "user_id")) =>
                    /\ session'[req'[r].sid] = EmptyDict
                    /\ req'[r].pc = "done" /\ req'[r].status = 200 /\ req'[r].json
       /\ \A s \in Sessions :
            (~Has(session[s], "user_id") /\ Has(session'[s], "user_id")) =>
                \E r \in Reqs : /\ Moves(r, "login_find", "done")
                                /\ req[r].sid = s /\ req'[r].status = 200
       /\ \A r \in Reqs :
            (req[r].pc = "idle" /\ req'[r].op \in {"logout", "status"}
                /\ ~Has(session[req'[r].sid], "user_id")) =>
                    /\ req'[r].pc = "done" /\ req'[r].json
                    /\ req'[r].status = IF req'[r].op = "status" THEN 200 ELSE 401
                    /\ ~req'[r].isLoggedIn
                    /\ session' = session
       /\ \A r \in Reqs :
            (req[r].pc = "idle" /\ req'[r].op \in PhotoOps
                /\ req'[r].user_id = <<>>) =>
                    req'[r].pc = "done" /\ req'[r].status = 401
       /\ \A r \in Reqs :
            req'[r].op = "status" => req'[r].json /\ req'[r].status = 200
       /\ SessionWellFormed(session')]_vars

\* A logout has been answered 200 and its session is empty, while the other
\* session is still logged in.
C9_Witness ==
    \E r \in Reqs :
        /\ req[r].pc = "done" /\ req[r].op = "logout" /\ req[r].status = 200
        /\ session[req[r].sid] = EmptyDict
        /\ \E s \in Sessions : Has(session[s], "user_id")

\* C10: every response is a structured JSON response: no failure of a store
\* call leaves a handler as an uncaught exception.
C10_FailuresStructured ==
    \A r \in Reqs : req[r].pc = "done" => req[r].json
====
